---- MODULE Spec2Model ----
(***************************************************************************)
(* font-cut: src/main.py.  A FontSubsetter object with four operations     *)
(* (validate_font_file, get_font_info, prepare_text, subset_font), a       *)
(* size formatter, the driver main() and the confirmation prompt of the    *)
(* script body.                                                            *)
(*                                                                         *)
(* Text is modelled as sequences of Unicode code points, so that lower(),  *)
(* strip(), Path.suffix, set() and sorted() are computed and not assumed.  *)
(* The font library (fontTools) is outside the repository: what a call to  *)
(* it does to a file is decided by the file's record (does it parse, has   *)
(* it a name table, ...) or by an environment input chosen with \E.        *)
(***************************************************************************)
EXTENDS Integers, Sequences, FiniteSets, TLC

VARIABLES
    pc,            \* position of the script: import guard, prompt, steps of main()
    exitStatus,    \* process exit status, NotExited while running
    stdout,        \* lines printed so far
    response,      \* the value of `response` at line 218 (lower-cased, stripped)
    calls,         \* names of the operations the run has called, in order
    fs,            \* the filesystem: path -> file record or NoFile
    openHandles,   \* number of TTFont handles opened and not closed
    final_text,    \* main(): local final_text
    original_info, \* main(): local original_info
    subset_info,   \* main(): local subset_info
    last,          \* the last direct call of an operation and its outcome
    how            \* how the process ended ("running" until it does)

vars == <<pc, exitStatus, stdout, response, calls, fs, openHandles,
          final_text, original_info, subset_info, last, how>>

(***************************************************************************)
(* Bounds of the model.                                                    *)
(***************************************************************************)
MaxTextLen == 3
MaxResponseLen == 3
MaxOpenHandles == 2

(***************************************************************************)
(* Code points and strings.                                                *)
(***************************************************************************)
Range(s) == {s[i] : i \in 1..Len(s)}

SeqsUpTo(S, n) == UNION {[1..k -> S] : k \in 0..n}

\* str.lower() on the characters the model uses: A-Z map to a-z, the other
\* characters of the model (ASCII punctuation, digits, CJK) have no lower case.
LowerChar(c) == IF c >= 65 /\ c <= 90 THEN c + 32 ELSE c

Lower(s) == [i \in 1..Len(s) |-> LowerChar(s[i])]

\* str.strip() with no argument removes leading and trailing whitespace.
IsSpace(c) == c \in {9, 10, 11, 12, 13, 32}

RECURSIVE LStrip(_)
LStrip(s) == IF s # <<>> /\ IsSpace(Head(s)) THEN LStrip(Tail(s)) ELSE s

RECURSIVE RStrip(_)
RStrip(s) ==
    IF s # <<>> /\ IsSpace(s[Len(s)]) THEN RStrip(SubSeq(s, 1, Len(s) - 1)) ELSE s

Strip(s) == RStrip(LStrip(s))

\* sorted(set) of characters: ascending code point.

\* The i-th character of the result is the one with i - 1 smaller ones.
Sorted(S) ==
    LET smaller == [x \in S |-> Cardinality({y \in S : y < x})]
    IN [i \in 1..Cardinality(S) |-> CHOOSE x \in S : smaller[x] = i - 1]

(***************************************************************************)
(* prepare_text (lines 87-104).                                            *)
(***************************************************************************)
\* line 95: ' !"#$%&\'()*+,-./:;<=>?@[\\]^_`{|}~'
BASIC_LATIN ==
    <<32, 33, 34, 35, 36, 37, 38, 39, 40, 41, 42, 43, 44, 45, 46, 47,
      58, 59, 60, 61, 62, 63, 64, 91, 92, 93, 94, 95, 96, 123, 124, 125, 126>>

\* line 98: '0123456789'
NUMBERS == <<48, 49, 50, 51, 52, 53, 54, 55, 56, 57>>

\* line 102: two adjacent literals, '...""' and '【】...', concatenated by the
\* parser; the quotation marks in it are the ASCII character 34, twice.
\* The same literal with the typographic quotation marks “ ” ‘ ’ in place of
\* the ASCII ones.
PunctuationCurlyQuotes ==
    <<12290, 65292, 12289, 65307, 65306, 65311, 65281, 8220, 8221, 8216, 8217,
      12304, 12305, 12298, 12299, 65288, 65289, 183, 8212, 8230>>

PUNCTUATION ==
    <<12290, 65292, 12289, 65307, 65306, 65311, 65281, 34, 34,
      12304, 12305, 12298, 12299, 65288, 65289, 183, 8212, 8230>>

\* prepare_text without set() and sorted().
PrepareNoSort(text, keep_basic_latin, keep_numbers, keep_punctuation) ==
    text \o (IF keep_basic_latin THEN BASIC_LATIN ELSE <<>>)
         \o (IF keep_numbers THEN NUMBERS ELSE <<>>)
         \o (IF keep_punctuation THEN PUNCTUATION ELSE <<>>)

prepare_text(text, keep_basic_latin, keep_numbers, keep_punctuation) ==
    Sorted(Range(text)
           \cup (IF keep_basic_latin THEN Range(BASIC_LATIN) ELSE {})
           \cup (IF keep_numbers THEN Range(NUMBERS) ELSE {})
           \cup (IF keep_punctuation THEN Range(PUNCTUATION) ELSE {}))

(***************************************************************************)
(* Configuration (lines 22-31).                                            *)
(***************************************************************************)
KEEP_TEXT == <<28404, 22825, 39635>>                               \* "滴天髓"
INPUT_FONT == <<106, 104, 108, 115, 116, 46, 116, 116, 102>>       \* "jhlst.ttf"
OUTPUT_FONT ==
    <<106, 104, 108, 115, 116, 95, 115, 117, 98, 46, 116, 116, 102>> \* "jhlst_sub.ttf"
KEEP_BASIC_LATIN == FALSE
KEEP_NUMBERS == FALSE
KEEP_PUNCTUATION == FALSE

(***************************************************************************)
(* Files, fonts and exceptions.                                            *)
(***************************************************************************)
\* A name record of the font's name table: its nameID, whether toUnicode()
\* can decode it, and the decoded string.
NameRec(id, ok, str) == [nameID |-> id, decodes |-> ok, str |-> str]

\* A file: whether TTFont() can open it (and the library's error text when it
\* cannot), its name table, its best cmap ("missing": no cmap table, "none":
\* getBestCmap() returns None, "map": the mapped characters), its size.
FileRec(parses, err, hasName, names, cmapKind, chars, size) ==
    [exists |-> TRUE, parses |-> parses, err |-> err, hasName |-> hasName,
     names |-> names, cmapKind |-> cmapKind, chars |-> chars, size |-> size]

NoFile ==
    [exists |-> FALSE, parses |-> FALSE, err |-> "No such file or directory",
     hasName |-> FALSE, names |-> <<>>, cmapKind |-> "missing", chars |-> {},
     size |-> 0]

GoodFont ==
    FileRec(TRUE, "", TRUE,
            <<NameRec(2, TRUE, "Regular"), NameRec(1, TRUE, "JHLST"),
              NameRec(1, TRUE, "JHLST Alt")>>,
            "map", {65, 66, 67, 28404, 22825, 39635}, 2097152)
NoFamilyFont ==
    FileRec(TRUE, "", TRUE, <<NameRec(2, TRUE, "Regular")>>, "map", {65, 66}, 2048)
NoNameTableFont == FileRec(TRUE, "", FALSE, <<>>, "map", {65, 66}, 2048)
BadNameFont ==
    FileRec(TRUE, "", TRUE, <<NameRec(1, FALSE, "")>>, "map", {65, 66}, 2048)
NoBestCmapFont ==
    FileRec(TRUE, "", TRUE, <<NameRec(1, TRUE, "JHLST")>>, "none", {}, 512)
NoCmapTableFont ==
    FileRec(TRUE, "", TRUE, <<NameRec(1, TRUE, "JHLST")>>, "missing", {}, 512)
NotAFont ==
    FileRec(FALSE, "Not a TrueType or OpenType font (bad sfntVersion)",
            FALSE, <<>>, "missing", {}, 10)
EmptyFile ==
    FileRec(FALSE, "Not a TrueType or OpenType font (not enough data)",
            FALSE, <<>>, "missing", {}, 0)
\* What font.save() leaves behind when it fails part-way.
TruncatedFile ==
    FileRec(FALSE, "Not a TrueType or OpenType font (not enough data)",
            FALSE, <<>>, "missing", {}, 12)

Files ==
    {GoodFont, NoFamilyFont, NoNameTableFont, BadNameFont, NoBestCmapFont,
     NoCmapTableFont, NotAFont, EmptyFile}

\* An exception: its Python type, the fixed part of its message, and the
\* interpolated part (a path or extension, or the text of another exception).
Exc(type, prefix, arg, cause) ==
    [type |-> type, prefix |-> prefix, arg |-> arg, cause |-> cause]
NoExc == Exc("none", "", <<>>, "")

\* Message texts are written in English here; the source's are
\*   line 44  "字体文件不存在: "   "font file does not exist: "
\*   line 48  "不支持的字体格式: " "unsupported font format: "
\*   line 55  "无效的字体文件: "   "invalid font file: "
\*   line 131 "字体裁剪失败: "     "font subsetting failed: "

\* os.path.exists (lines 43, 151, 183)
exists(path, fsys) == path \in DOMAIN fsys /\ fsys[path].exists

\* TTFont(path) (lines 51, 60, 114): opens the file and reads its table
\* directory.
TTFont(path, fsys) ==
    IF ~exists(path, fsys) THEN [ok |-> FALSE, err |-> NoFile.err]
    ELSE IF ~fsys[path].parses THEN [ok |-> FALSE, err |-> fsys[path].err]
    ELSE [ok |-> TRUE, err |-> ""]

(***************************************************************************)
(* Path(font_path).suffix (line 46): the final component's part from its   *)
(* last dot, empty when there is no dot, or the dot is first or last.      *)
(***************************************************************************)
LastIndexOf(s, c) ==
    LET I == {i \in 1..Len(s) : s[i] = c}
    IN IF I = {} THEN 0 ELSE CHOOSE i \in I : \A j \in I : j <= i

PathName(path) == SubSeq(path, LastIndexOf(path, 47) + 1, Len(path))

Suffix(path) ==
    LET name == PathName(path)
        i == LastIndexOf(name, 46)
    IN IF 1 < i /\ i < Len(name) THEN SubSeq(name, i, Len(name)) ELSE <<>>

(***************************************************************************)
(* Outcome of one call of an operation: the exception that left it (NoExc  *)
(* when it returned), the value returned, the handles it opened and        *)
(* closed, how often it called TTFont(), and the filesystem it leaves.     *)
(***************************************************************************)
FontInfo(name, char_count, file_size) ==
    [name |-> name, char_count |-> char_count, file_size |-> file_size]

\* line 85
SentinelInfo == FontInfo("Unknown", 0, 0)

\* the value of a local that has not been assigned
NoInfo == FontInfo("", -1, -1)

Outcome(raised, ok, info, opened, closed, parser, fsys) ==
    [raised |-> raised, ok |-> ok, info |-> info, opened |-> opened,
     closed |-> closed, parser |-> parser, fs |-> fsys]

(***************************************************************************)
(* validate_font_file (lines 41-55).                                       *)
(***************************************************************************)
supported_formats ==
    { <<46, 116, 116, 102>>,            \* ".ttf"
      <<46, 111, 116, 102>>,            \* ".otf"
      <<46, 119, 111, 102, 102>>,       \* ".woff"
      <<46, 119, 111, 102, 102, 50>> }  \* ".woff2"

\* validate_font_file with the font opened before the other two checks.
ValidateParseFirst(font_path, fsys) ==
    LET file_ext == Lower(Suffix(font_path))
        font == TTFont(font_path, fsys)
    IN IF ~font.ok
         THEN Outcome(Exc("ValueError", "invalid font file: ", <<>>, font.err),
                      FALSE, NoInfo, 0, 0, 1, fsys)
       ELSE IF file_ext \notin supported_formats
         THEN Outcome(Exc("ValueError", "unsupported font format: ", file_ext, ""),
                      FALSE, NoInfo, 1, 1, 1, fsys)
       ELSE Outcome(NoExc, TRUE, NoInfo, 1, 1, 1, fsys)

validate_font_file(font_path, fsys) ==
    LET file_ext == Lower(Suffix(font_path))
        font == TTFont(font_path, fsys)
    IN IF ~exists(font_path, fsys)
         THEN Outcome(Exc("FileNotFoundError", "font file does not exist: ", font_path, ""),
                      FALSE, NoInfo, 0, 0, 0, fsys)
       ELSE IF file_ext \notin supported_formats
         THEN Outcome(Exc("ValueError", "unsupported font format: ", file_ext, ""),
                      FALSE, NoInfo, 0, 0, 0, fsys)
       ELSE IF ~font.ok
         THEN Outcome(Exc("ValueError", "invalid font file: ", <<>>, font.err),
                      FALSE, NoInfo, 0, 0, 1, fsys)
       ELSE \* font.close(); return True
            Outcome(NoExc, TRUE, NoInfo, 1, 1, 1, fsys)

(***************************************************************************)
(* get_font_info (lines 57-85).  stat_ok: whether os.path.getsize          *)
(* succeeds.  GetFontInfoTry is the body of the try block: it stops at the *)
(* first statement that raises, with the handle it holds still open.       *)
(***************************************************************************)
FamilyRecords(names) == {i \in 1..Len(names) : names[i].nameID = 1}

FirstFamily(names) ==
    CHOOSE i \in FamilyRecords(names) : \A j \in FamilyRecords(names) : i <= j

GetFontInfoTry(font_path, fsys, stat_ok) ==
    LET font == TTFont(font_path, fsys)
        f == fsys[font_path]
        hasFamily == FamilyRecords(f.names) # {}
        font_name == IF hasFamily THEN f.names[FirstFamily(f.names)].str
                     ELSE "Unknown"
        char_count == IF f.cmapKind = "map" THEN Cardinality(f.chars) ELSE 0
    IN IF ~font.ok
         THEN Outcome(Exc("TTLibError", "", <<>>, font.err),
                      FALSE, NoInfo, 0, 0, 1, fsys)
       ELSE IF ~f.hasName
         THEN Outcome(Exc("KeyError", "", <<>>, "name"),
                      FALSE, NoInfo, 1, 0, 1, fsys)
       ELSE IF hasFamily /\ ~f.names[FirstFamily(f.names)].decodes
         THEN Outcome(Exc("UnicodeDecodeError", "", <<>>, "codec can't decode"),
                      FALSE, NoInfo, 1, 0, 1, fsys)
       ELSE IF f.cmapKind = "missing"
         THEN Outcome(Exc("KeyError", "", <<>>, "cmap"),
                      FALSE, NoInfo, 1, 0, 1, fsys)
       ELSE IF ~stat_ok
         THEN Outcome(Exc("OSError", "", <<>>, "stat failed"),
                      FALSE, NoInfo, 1, 0, 1, fsys)
       ELSE \* font.close(); return {...}
            Outcome(NoExc, TRUE, FontInfo(font_name, char_count, f.size),
                    1, 1, 1, fsys)

\* get_font_info without its except clause.
GetFontInfoNoExcept(font_path, fsys, stat_ok) ==
    GetFontInfoTry(font_path, fsys, stat_ok)

get_font_info(font_path, fsys, stat_ok) ==
    LET t == GetFontInfoTry(font_path, fsys, stat_ok)
    IN IF t.raised = NoExc THEN t
       ELSE \* except Exception: return the sentinel
            [t EXCEPT !.raised = NoExc, !.info = SentinelInfo]

(***************************************************************************)
(* subset_font (lines 106-131).  env is what the library and the disk do   *)
(* during this call: failAt names the statement of the try block that      *)
(* raises ("none": no statement does), cause is the text of that           *)
(* exception, partial says whether a failed save() left a truncated file,  *)
(* outSize is the size of the file a successful save() writes.             *)
(***************************************************************************)
SubsetEnv(failAt, cause, partial, outSize) ==
    [failAt |-> failAt, cause |-> cause, partial |-> partial, outSize |-> outSize]

SubsetEnvs ==
    {SubsetEnv("none", "", FALSE, n) : n \in {512, 4096}}
    \cup {SubsetEnv(st, c, FALSE, 0) :
            st \in {"open", "populate", "subset", "save"},
            c \in {"No space left on device"}}
    \cup {SubsetEnv("save", "No space left on device", TRUE, 0)}

\* The font that subsetter.subset(font) leaves and font.save() writes: the
\* characters of the text that the input font maps.
SubsetFile(f, text, outSize) ==
    [f EXCEPT !.chars = IF f.cmapKind = "map" THEN f.chars \cap Range(text)
                        ELSE f.chars,
              !.size = outSize]

\* lines 114-129, the body of the try block
SubsetTry(input_path, output_path, text, fsys, env) ==
    LET font == TTFont(input_path, fsys)
        libErr == Exc("LibraryError", "", <<>>, env.cause)
    IN IF ~font.ok
         THEN Outcome(Exc("TTLibError", "", <<>>, font.err),
                      FALSE, NoInfo, 0, 0, 1, fsys)
       ELSE IF env.failAt = "open"
         THEN Outcome(libErr, FALSE, NoInfo, 0, 0, 1, fsys)
       ELSE IF env.failAt \in {"populate", "subset"}
         THEN Outcome(libErr, FALSE, NoInfo, 1, 0, 1, fsys)
       ELSE IF env.failAt = "save"
         THEN Outcome(libErr, FALSE, NoInfo, 1, 0, 1,
                      IF env.partial
                      THEN [fsys EXCEPT ![output_path] = TruncatedFile]
                      ELSE fsys)
       ELSE \* font.save(output_path); font.close(); return True
            Outcome(NoExc, TRUE, NoInfo, 1, 1, 1,
                    [fsys EXCEPT ![output_path] =
                        SubsetFile(fsys[input_path], text, env.outSize)])

\* the two calls in sequence: handles and parser calls add up
After(v, t) ==
    [t EXCEPT !.opened = v.opened + t.opened,
              !.closed = v.closed + t.closed,
              !.parser = v.parser + t.parser]

\* subset_font without its try/except.
SubsetFontNoWrap(input_path, output_path, text, fsys, env) ==
    LET v == validate_font_file(input_path, fsys)
    IN IF v.raised # NoExc THEN v
       ELSE After(v, SubsetTry(input_path, output_path, text, v.fs, env))

subset_font(input_path, output_path, text, fsys, env) ==
    LET v == validate_font_file(input_path, fsys)      \* line 110, outside the try
        t == SubsetTry(input_path, output_path, text, v.fs, env)
    IN IF v.raised # NoExc THEN v
       ELSE IF t.raised = NoExc THEN After(v, t)
       ELSE \* line 131: raise RuntimeError(f"...: {e}")
            After(v, [t EXCEPT !.raised =
                Exc("RuntimeError", "font subsetting failed: ", <<>>, t.raised.cause)])

(***************************************************************************)
(* format_file_size (lines 133-140).  f"{x:.1f}" of x = n / d, d a power   *)
(* of two: n / d is exact in binary floating point, and the format rounds  *)
(* it to one decimal, ties to even.  The result is the number of tenths.   *)
(***************************************************************************)
OneDecimal(n, d) ==
    LET q == (n * 10) \div d
        r == (n * 10) % d
    IN IF 2 * r > d \/ (2 * r = d /\ q % 2 = 1) THEN q + 1 ELSE q

format_file_size(size_bytes) ==
    IF size_bytes < 1024 THEN [tenths |-> size_bytes * 10, unit |-> "B"]
    ELSE IF size_bytes < 1024 * 1024
      THEN [tenths |-> OneDecimal(size_bytes, 1024), unit |-> "KB"]
    ELSE [tenths |-> OneDecimal(size_bytes, 1024 * 1024), unit |-> "MB"]

(***************************************************************************)
(* Direct calls of the operations, with arguments drawn from bounded sets. *)
(***************************************************************************)
Call(op, path, text, flags, stat_ok, env, out, result) ==
    [op |-> op, path |-> path, text |-> text, flags |-> flags,
     stat_ok |-> stat_ok, env |-> env, out |-> out, result |-> result]

NoFs == [p \in {} |-> NoFile]

NoEnv == SubsetEnv("none", "", FALSE, 0)

NoOutcome == Outcome(NoExc, FALSE, NoInfo, 0, 0, 0, NoFs)

NoCall ==
    Call("none", <<>>, <<>>, <<FALSE, FALSE, FALSE>>, TRUE, NoEnv, NoOutcome, <<>>)

\* '"' (in the basic Latin and in the punctuation literal), '1' (a digit),
\* 'A' and '滴' (in none of the fixed sets).
TextAlphabet == {34, 49, 65, 28404}

Texts == SeqsUpTo(TextAlphabet, MaxTextLen)

\* a.ttf  a.TTF  a.Otf  a.woff  a.WOFF2  a.txt  a  .ttf  a.ttf.bak  d.ttf/a
PathSet ==
    { <<97, 46, 116, 116, 102>>, <<97, 46, 84, 84, 70>>, <<97, 46, 79, 116, 102>>,
      <<97, 46, 119, 111, 102, 102>>, <<97, 46, 87, 79, 70, 70, 50>>,
      <<97, 46, 116, 120, 116>>, <<97>>, <<46, 116, 116, 102>>,
      <<97, 46, 116, 116, 102, 46, 98, 97, 107>>,
      <<100, 46, 116, 116, 102, 47, 97>> }

SubsetTexts == {<<65, 28404>>}

\* `response` before input() has returned
NoResponse == [given |-> FALSE, typed |-> <<>>, value |-> <<>>]

RunDefaults ==
    /\ pc = "idle"
    /\ exitStatus = -1
    /\ stdout = <<>>
    /\ response = NoResponse
    /\ calls = <<>>
    /\ final_text = <<>>
    /\ original_info = NoInfo
    /\ subset_info = NoInfo
    /\ how = "running"

RunUnchanged ==
    UNCHANGED <<pc, exitStatus, stdout, response, calls, final_text,
                original_info, subset_info, how>>

\* prepare_text is pure: each behaviour draws one argument list and calls it.
InitText ==
    /\ RunDefaults
    /\ fs = NoFs
    /\ openHandles = 0
    /\ \E text \in Texts, kbl \in BOOLEAN, kn \in BOOLEAN, kp \in BOOLEAN :
           last = Call("pending", <<>>, text, <<kbl, kn, kp>>, TRUE,
                       NoEnv, NoOutcome, <<>>)

CallPrepareText ==
    /\ last.op = "pending"
    /\ last' = [last EXCEPT
                  !.op = "prepare_text",
                  !.result = prepare_text(last.text, last.flags[1],
                                          last.flags[2], last.flags[3])]
    /\ UNCHANGED <<fs, openHandles>>
    /\ RunUnchanged

NextText == CallPrepareText

SpecText == InitText /\ [][NextText]_vars

\* The file operations: one path holds any of the files (or none), the output
\* path is free, and the operations are called in any order on either path.
InitOps ==
    /\ RunDefaults
    /\ \E p \in PathSet, f \in Files \cup {NoFile} :
           fs = [q \in {p, OUTPUT_FONT} |-> IF q = p THEN f ELSE NoFile]
    /\ openHandles = 0
    /\ last = NoCall

\* the effect of a call on the filesystem and on the open handles
Effect(o) ==
    /\ openHandles + o.opened - o.closed <= MaxOpenHandles
    /\ openHandles' = openHandles + o.opened - o.closed
    /\ fs' = o.fs

CallValidate ==
    \E p \in DOMAIN fs :
        LET o == validate_font_file(p, fs)
        IN /\ Effect(o)
           /\ last' = Call("validate_font_file", p, <<>>, NoCall.flags, TRUE,
                           NoEnv, o, <<>>)
           /\ RunUnchanged

CallGetFontInfo ==
    \E p \in DOMAIN fs, stat_ok \in BOOLEAN :
        LET o == get_font_info(p, fs, stat_ok)
        IN /\ Effect(o)
           /\ last' = Call("get_font_info", p, <<>>, NoCall.flags, stat_ok,
                           NoEnv, o, <<>>)
           /\ RunUnchanged

CallSubsetFont ==
    \E p \in DOMAIN fs, text \in SubsetTexts, env \in SubsetEnvs :
        LET o == subset_font(p, OUTPUT_FONT, text, fs, env)
        IN /\ Effect(o)
           /\ last' = Call("subset_font", p, text, NoCall.flags, TRUE,
                           env, o, <<>>)
           /\ RunUnchanged

NextOps == CallValidate \/ CallGetFontInfo \/ CallSubsetFont

SpecOps == InitOps /\ [][NextOps]_vars

(***************************************************************************)
(* The script: import guard (lines 12-18), the prompt (lines 208-224) and  *)
(* main() (lines 143-205).                                                 *)
(***************************************************************************)
\* A printed line: a fixed text and the values interpolated into it.
Line(text, chars, num, str, exc) ==
    [text |-> text, chars |-> chars, num |-> num, str |-> str, exc |-> exc]
Ln(text) == Line(text, <<>>, 0, "", NoExc)
LnChars(text, chars) == Line(text, chars, 0, "", NoExc)
LnNum(text, num) == Line(text, <<>>, num, "", NoExc)
LnStr(text, str) == Line(text, <<>>, 0, str, NoExc)
LnSize(text, size) == Line(text, <<>>, size.tenths, size.unit, NoExc)
LnExc(text, exc) == Line(text, <<>>, 0, "", exc)

\* line 222 and line 224
DeclinedLine == Ln("cancelled. edit KEEP_TEXT in the script and run again.")
InterruptLine == Ln("(newline) cancelled.")

MainPcs == {"main", "main_prepare", "main_info", "main_subset", "main_report"}

\* The list of line 219 without the empty response.
AffirmativeNoEmpty == {<<121>>, <<121, 101, 115>>, <<26159>>}

\* line 219: 'y', 'yes', '是', ''
Affirmative == {<<121>>, <<121, 101, 115>>, <<26159>>, <<>>}

\* Which except clause catches an exception raised at position p.  kind is
\* "Exception" for the subclasses of Exception (EOFError, ValueError, ...) and
\* "KeyboardInterrupt" for the interrupt, which is not one.  input() (line
\* 218) and the call of main() (line 220) are both inside the try of line 217;
\* the statements of main() are inside its own try of line 146.
\* The nesting with main() called after the try of line 217 instead of in it.
CatchSitePromptOnly(p, kind) ==
    IF p \in MainPcs /\ kind = "Exception" THEN "L203"
    ELSE IF p = "prompt" /\ kind = "KeyboardInterrupt" THEN "L223"
    ELSE "uncaught"

CatchSite(p, kind) ==
    IF p \in MainPcs /\ kind = "Exception" THEN "L203"
    ELSE IF p \in MainPcs \cup {"prompt"} /\ kind = "KeyboardInterrupt" THEN "L223"
    ELSE "uncaught"

Exit(status, reason, lines) ==
    /\ pc' = "done"
    /\ exitStatus' = status
    /\ how' = reason
    /\ stdout' = stdout \o lines

\* An exception of the given kind is raised at the current position, after
\* the lines in `printed` were printed.
\*   L203: print the error, sys.exit(1); SystemExit is no KeyboardInterrupt, so
\*         line 223 lets it through and the process exits with 1.
\*   L223: print the cancellation; the script ends, status 0.
\*   uncaught: the interpreter prints a traceback to stderr and exits with 1;
\*         for KeyboardInterrupt it ends the process by SIGINT (status 130).
Raise(kind, e, printed) ==
    LET site == CatchSite(pc, kind)
    IN IF site = "L203"
         THEN Exit(1, "main_exception", printed \o <<LnExc("error: ", e)>>)
       ELSE IF site = "L223"
         THEN Exit(0, IF pc = "prompt" THEN "interrupt_at_prompt"
                      ELSE "interrupt_in_main", printed \o <<InterruptLine>>)
       ELSE IF kind = "KeyboardInterrupt"
         THEN Exit(130, "uncaught_interrupt", printed)
       ELSE Exit(1, "uncaught_exception", printed)

KeyboardInterrupt == Exc("KeyboardInterrupt", "", <<>>, "")

Alphabet == {32, 69, 83, 89, 101, 110, 115, 121, 26159}  \* ' ESYensy是'

Responses == SeqsUpTo(Alphabet, MaxResponseLen)

Init ==
    /\ pc = "import"
    /\ exitStatus = -1
    /\ stdout = <<>>
    /\ response = NoResponse
    /\ calls = <<>>
    /\ final_text = <<>>
    /\ original_info = NoInfo
    /\ subset_info = NoInfo
    /\ how = "running"
    /\ openHandles = 0
    /\ last = NoCall
    /\ \E f \in Files \cup {NoFile}, g \in {NoFile, NoFamilyFont} :
           fs = [q \in {INPUT_FONT, OUTPUT_FONT} |->
                    IF q = INPUT_FONT THEN f ELSE g]

\* lines 12-18
ImportGuard ==
    /\ pc = "import"
    /\ \E installed \in BOOLEAN :
          IF installed
          THEN /\ pc' = "config"
               /\ UNCHANGED <<exitStatus, stdout, how>>
          ELSE Exit(1, "import_error",
                    <<Ln("error: install fonttools first"),
                      Ln("run: pip install fonttools")>>)
    /\ UNCHANGED <<response, calls, fs, openHandles, final_text,
                   original_info, subset_info, last>>

\* lines 210-214
ShowConfig ==
    /\ pc = "config"
    /\ pc' = "prompt"
    /\ stdout' = stdout \o <<Ln("configured text to keep:"), Ln("-" ),
                             LnChars("", Strip(KEEP_TEXT)), Ln("-"), Ln("")>>
    /\ UNCHANGED <<exitStatus, how, response, calls, fs, openHandles,
                   final_text, original_info, subset_info, last>>

\* lines 218-222: input() returns what was typed
PromptResponse ==
    /\ pc = "prompt"
    /\ \E typed \in Responses :
          LET value == Strip(Lower(typed))
          IN /\ response' = [given |-> TRUE, typed |-> typed, value |-> value]
             /\ IF value \in Affirmative
                THEN /\ pc' = "main"
                     /\ UNCHANGED <<exitStatus, stdout, how>>
                ELSE Exit(0, "declined", <<DeclinedLine>>)
    /\ UNCHANGED <<calls, fs, openHandles, final_text, original_info,
                   subset_info, last>>

\* line 218: input() raises KeyboardInterrupt (Ctrl-C at the prompt)
PromptInterrupt ==
    /\ pc = "prompt"
    /\ Raise("KeyboardInterrupt", KeyboardInterrupt, <<>>)
    /\ UNCHANGED <<response, calls, fs, openHandles, final_text,
                   original_info, subset_info, last>>

\* line 218: input() raises EOFError (standard input is at end of file)
PromptEOF ==
    /\ pc = "prompt"
    /\ Raise("Exception", Exc("EOFError", "", <<>>, "EOF when reading a line"), <<>>)
    /\ UNCHANGED <<response, calls, fs, openHandles, final_text,
                   original_info, subset_info, last>>

\* lines 144-154
MainCheckInput ==
    /\ pc = "main"
    /\ calls' = Append(calls, "os.path.exists")
    /\ IF ~exists(INPUT_FONT, fs)
       THEN Exit(0, "input_missing",
                 <<Ln("font subsetting tool"), Ln("="),
                   LnChars("input font file does not exist: ", INPUT_FONT),
                   Ln("set INPUT_FONT in the script to the right path")>>)
       ELSE /\ pc' = "main_prepare"
            /\ stdout' = stdout \o <<Ln("font subsetting tool"), Ln("=")>>
            /\ UNCHANGED <<exitStatus, how>>
    /\ UNCHANGED <<response, fs, openHandles, final_text, original_info,
                   subset_info, last>>

\* line 167: final_text[:50] and '...' when it is longer
Preview(text) ==
    IF Len(text) > 50 THEN SubSeq(text, 1, 50) \o <<46, 46, 46>> ELSE text

\* lines 157-168
MainPrepareText ==
    /\ pc = "main_prepare"
    /\ calls' = Append(calls, "prepare_text")
    /\ LET t == prepare_text(KEEP_TEXT, KEEP_BASIC_LATIN, KEEP_NUMBERS,
                             KEEP_PUNCTUATION)
       IN /\ final_text' = t
          /\ stdout' = stdout \o <<LnChars("input file: ", INPUT_FONT),
                                   LnChars("output file: ", OUTPUT_FONT),
                                   LnNum("characters to keep: ", Len(t)),
                                   LnChars("preview: ", Preview(t)), Ln("")>>
    /\ pc' = "main_info"
    /\ UNCHANGED <<exitStatus, how, response, fs, openHandles, original_info,
                   subset_info, last>>

InfoLines(header, info) ==
    <<Ln(header), LnStr("  name: ", info.name),
      LnSize("  size: ", format_file_size(info.file_size)),
      LnNum("  characters: ", info.char_count), Ln("")>>

\* lines 171-176
MainOriginalInfo ==
    /\ pc = "main_info"
    /\ calls' = Append(calls, "get_font_info")
    /\ \E stat_ok \in BOOLEAN :
          LET o == get_font_info(INPUT_FONT, fs, stat_ok)
          IN /\ openHandles' = openHandles + o.opened - o.closed
             /\ IF o.raised # NoExc
                THEN /\ Raise("Exception", o.raised, <<>>)
                     /\ UNCHANGED original_info
                ELSE /\ original_info' = o.info
                     /\ stdout' = stdout \o InfoLines("original font:", o.info)
                     /\ pc' = "main_subset"
                     /\ UNCHANGED <<exitStatus, how>>
    /\ UNCHANGED <<response, fs, final_text, subset_info, last>>

\* lines 179-180
MainSubset ==
    /\ pc = "main_subset"
    /\ calls' = Append(calls, "subset_font")
    /\ \E env \in SubsetEnvs :
          LET o == subset_font(INPUT_FONT, OUTPUT_FONT, final_text, fs, env)
          IN /\ openHandles' = openHandles + o.opened - o.closed
             /\ fs' = o.fs
             /\ IF o.raised # NoExc
                THEN Raise("Exception", o.raised, <<Ln("subsetting the font...")>>)
                ELSE /\ stdout' = Append(stdout, Ln("subsetting the font..."))
                     /\ pc' = "main_report"
                     /\ UNCHANGED <<exitStatus, how>>
    /\ UNCHANGED <<response, final_text, original_info, subset_info, last>>

\* lines 193-195: the size reduction in percent, (1 - subset / original) * 100.
\* The line carries the two sizes; dividing by 0 raises ZeroDivisionError.
Percent(subset_size, original_size) ==
    IF original_size = 0
    THEN [raised |-> Exc("ZeroDivisionError", "", <<>>, "division by zero"),
          lines |-> <<>>]
    ELSE [raised |-> NoExc,
          lines |-> <<LnChars("  size reduced by (subset, original): ",
                              <<subset_size, original_size>>)>>]

\* The computation without the guard of line 193.
SizeReductionUnguarded(original, subset) ==
    Percent(subset.file_size, original.file_size)

SizeReduction(original, subset) ==
    IF original.file_size > 0
    THEN Percent(subset.file_size, original.file_size)
    ELSE [raised |-> NoExc, lines |-> <<>>]

\* lines 183-201
MainReport ==
    /\ pc = "main_report"
    /\ calls' = calls \o (IF exists(OUTPUT_FONT, fs)
                          THEN <<"os.path.exists", "get_font_info">>
                          ELSE <<"os.path.exists">>)
    /\ IF exists(OUTPUT_FONT, fs)
       THEN \E stat_ok \in BOOLEAN :
               LET o == get_font_info(OUTPUT_FONT, fs, stat_ok)
                   r == SizeReduction(original_info, o.info)
                   shown == <<Ln("font subsetting done!"), Ln(""),
                              Ln("subset font:"),
                              LnChars("  file: ", OUTPUT_FONT),
                              LnSize("  size: ", format_file_size(o.info.file_size)),
                              LnNum("  characters: ", o.info.char_count)>>
               IN /\ openHandles' = openHandles + o.opened - o.closed
                  /\ IF o.raised # NoExc
                     THEN /\ Raise("Exception", o.raised, <<>>)
                          /\ UNCHANGED subset_info
                     ELSE /\ subset_info' = o.info
                          /\ IF r.raised # NoExc
                             THEN Raise("Exception", r.raised, shown)
                             ELSE Exit(0, "completed",
                                       shown \o r.lines \o
                                       <<Ln(""), Ln("finished! the subset font is at:"),
                                         LnChars("   ", OUTPUT_FONT)>>)
       ELSE /\ Exit(0, "completed", <<Ln("font subsetting failed")>>)
            /\ UNCHANGED <<openHandles, subset_info>>
    /\ UNCHANGED <<response, fs, final_text, original_info, last>>

\* Ctrl-C while main() runs: KeyboardInterrupt is raised between two of its
\* statements.
MainInterrupt ==
    /\ pc \in MainPcs
    /\ Raise("KeyboardInterrupt", KeyboardInterrupt, <<>>)
    /\ UNCHANGED <<response, calls, fs, openHandles, final_text,
                   original_info, subset_info, last>>

\* Ctrl-C before the try of line 217 is entered (lines 210-214).
EarlyInterrupt ==
    /\ pc = "config"
    /\ Raise("KeyboardInterrupt", KeyboardInterrupt, <<>>)
    /\ UNCHANGED <<response, calls, fs, openHandles, final_text,
                   original_info, subset_info, last>>

\* The filesystem is shared: another process removes a file while main() runs
\* (this is what the checks of lines 43 and 183 are for).
EnvUnlink ==
    /\ pc \in MainPcs
    /\ \E q \in DOMAIN fs :
          /\ fs[q].exists
          /\ fs' = [fs EXCEPT ![q] = NoFile]
    /\ UNCHANGED <<pc, exitStatus, stdout, how, response, calls, openHandles,
                   final_text, original_info, subset_info, last>>

Next ==
    \/ ImportGuard
    \/ ShowConfig
    \/ EarlyInterrupt
    \/ PromptResponse
    \/ PromptInterrupt
    \/ PromptEOF
    \/ MainCheckInput
    \/ MainPrepareText
    \/ MainOriginalInfo
    \/ MainSubset
    \/ MainReport
    \/ MainInterrupt
    \/ EnvUnlink

Spec == Init /\ [][Next]_vars

(***************************************************************************)
(* Properties.                                                             *)
(***************************************************************************)
MainEntered ==
    \/ pc \in MainPcs
    \/ how \in {"input_missing", "main_exception", "completed", "interrupt_in_main"}

Last(s) == s[Len(s)]

\* C1: the main routine runs if and only if the lower-cased, stripped response
\* is '', 'y', 'yes' or '是'; on any other response the program stops at once
\* with status 0, having called nothing, opened no font, left the filesystem
\* as it was and printed only the cancellation message.
C1_ConfirmationGate ==
    /\ [](response.given =>
            (MainEntered <=>
                response.value \in {<<>>, <<121>>, <<121, 101, 115>>, <<26159>>}))
    /\ [][(/\ pc = "prompt"
           /\ response'.given
           /\ response'.value \notin {<<>>, <<121>>, <<121, 101, 115>>, <<26159>>})
          => /\ pc' = "done"
             /\ exitStatus' = 0
             /\ calls' = <<>>
             /\ fs' = fs
             /\ openHandles' = 0
             /\ stdout' = Append(stdout, DeclinedLine)]_vars
    /\ [][how # "declined"]_vars

\* "Ye" is typed: lower-cased and stripped it is "ye", which is not "yes".
C1_Witness ==
    /\ how = "declined"
    /\ response.typed = <<89, 101>>
    /\ response.value = <<121, 101>>
    /\ calls = <<>>

\* C2: the process exits with status 1 exactly when the font library is
\* missing or an exception is raised inside the main routine; it exits with 0
\* on normal completion, on a declined confirmation and on a missing input
\* path, which is reported without calling prepare_text, get_font_info or
\* subset_font.
C2_ExitStatus ==
    pc = "done" =>
        /\ exitStatus = 1 <=> how \in {"import_error", "main_exception"}
        /\ how \in {"completed", "declined", "input_missing"} => exitStatus = 0
        /\ how = "input_missing" => calls = <<"os.path.exists">>

\* The paths of the model whose extension is .ttf, .otf, .woff or .woff2 in
\* any case: a.ttf, a.TTF, a.Otf, a.woff, a.WOFF2 and jhlst_sub.ttf.
AllowedExtensionPaths ==
    { <<97, 46, 116, 116, 102>>, <<97, 46, 84, 84, 70>>, <<97, 46, 79, 116, 102>>,
      <<97, 46, 119, 111, 102, 102>>, <<97, 46, 87, 79, 70, 70, 50>>,
      <<106, 104, 108, 115, 116, 95, 115, 117, 98, 46, 116, 116, 102>> }

\* C3: validate_font_file checks existence, then the extension, then whether
\* the font opens: a missing path fails with FileNotFoundError; an existing
\* path with another extension fails as an unsupported format and the parser
\* is not called; an existing path with an allowed extension that does not
\* open fails as an invalid font; it succeeds only when all three checks pass.
C3_ValidateOrder ==
    last.op = "validate_font_file" =>
        LET f == fs[last.path]
            o == last.out
            allowed == last.path \in AllowedExtensionPaths
        IN /\ ~f.exists =>
                /\ o.raised.type = "FileNotFoundError"
                /\ o.raised.arg = last.path
                /\ o.parser = 0
           /\ (f.exists /\ ~allowed) =>
                /\ o.raised.type = "ValueError"
                /\ o.raised.prefix = "unsupported font format: "
                /\ o.parser = 0
           /\ (f.exists /\ allowed /\ ~f.parses) =>
                /\ o.raised.type = "ValueError"
                /\ o.raised.prefix = "invalid font file: "
                /\ o.raised.cause = f.err
           /\ (o.raised = NoExc) <=> (f.exists /\ allowed /\ f.parses)
           /\ (o.raised = NoExc) => o.ok

\* a.txt holds a well-formed font and is rejected for its extension, unparsed.
C3_Witness ==
    /\ last.op = "validate_font_file"
    /\ last.path = <<97, 46, 116, 120, 116>>
    /\ fs[last.path] = GoodFont
    /\ last.out.raised.prefix = "unsupported font format: "
    /\ last.out.parser = 0

\* Whether a statement of get_font_info fails on file f.
InfoStepFails(f, stat_ok) ==
    \/ ~f.exists
    \/ ~f.parses
    \/ ~f.hasName
    \/ \E i \in 1..Len(f.names) :
          /\ f.names[i].nameID = 1
          /\ ~f.names[i].decodes
          /\ \A j \in 1..(i - 1) : f.names[j].nameID # 1
    \/ f.cmapKind = "missing"
    \/ ~stat_ok

\* C4: get_font_info never raises; when any of its steps fails (the path is
\* missing, the file does not parse, it has no name table, the family name
\* does not decode, the character map or the file size cannot be read) it
\* returns exactly {name "Unknown", count 0, size 0}, and otherwise the
\* file's own size and character count.
C4_InfoNeverRaises ==
    last.op = "get_font_info" =>
        LET f == fs[last.path]
            o == last.out
        IN /\ o.raised = NoExc
           /\ InfoStepFails(f, last.stat_ok) =>
                o.info = [name |-> "Unknown", char_count |-> 0, file_size |-> 0]
           /\ ~InfoStepFails(f, last.stat_ok) =>
                /\ o.info.file_size = f.size
                /\ o.info.char_count =
                      (IF f.cmapKind = "map" THEN Cardinality(f.chars) ELSE 0)

\* The font opens and its size is readable, but it has no name table.
C4_Witness ==
    /\ last.op = "get_font_info"
    /\ fs[last.path] = NoNameTableFont
    /\ last.stat_ok
    /\ last.out.info = SentinelInfo

BasicLatinRef == (32..47) \cup (58..64) \cup (91..96) \cup (123..126)
DigitsRef == 48..57
PunctuationRef ==
    {34, 183, 8212, 8230, 12289, 12290, 12298, 12299, 12304, 12305,
     65281, 65288, 65289, 65292, 65306, 65307, 65311}

\* C5: the result of prepare_text has no duplicates, is in ascending code
\* point order, and its characters are those of the input united with exactly
\* the fixed sets whose flag is enabled; so it contains every input character,
\* and enabling a flag that is disabled never removes a character.
C5_PrepareTextReference ==
    last.op = "prepare_text" =>
        LET r == last.result
            fl == last.flags
        IN /\ \A i \in 1..(Len(r) - 1) : r[i] < r[i + 1]
           /\ Range(r) = Range(last.text)
                           \cup (IF fl[1] THEN BasicLatinRef ELSE {})
                           \cup (IF fl[2] THEN DigitsRef ELSE {})
                           \cup (IF fl[3] THEN PunctuationRef ELSE {})
           /\ Range(last.text) \subseteq Range(r)
           /\ \A k \in 1..3 :
                 ~fl[k] =>
                     Range(r) \subseteq
                        Range(prepare_text(last.text, fl[1] \/ k = 1,
                                           fl[2] \/ k = 2, fl[3] \/ k = 3))

\* "滴AA" with the digits enabled: a duplicate, out of order.
C5_Witness ==
    /\ last.op = "prepare_text"
    /\ last.text = <<28404, 65, 65>>
    /\ last.flags = <<FALSE, TRUE, FALSE>>
    /\ last.result = <<48, 49, 50, 51, 52, 53, 54, 55, 56, 57, 65, 28404>>

AllFlags(b) == last.flags = <<b, b, b>>

PassesValidation(path, fsys) ==
    /\ fsys[path].exists
    /\ path \in AllowedExtensionPaths
    /\ fsys[path].parses

\* C7: once the input has passed validation, subset_font returns when no step
\* fails, and otherwise raises one RuntimeError whose message carries the text
\* of the underlying exception, whichever step (opening, populating,
\* subsetting, saving) failed; nothing else escapes.  On failure the output
\* path is left as the failed step left it: truncated when save() wrote part
\* of the file, and otherwise what it was before the call.
C7_SubsetFailure ==
    [][(last'.op = "subset_font" /\ PassesValidation(last'.path, fs)) =>
          LET o == last'.out
              env == last'.env
          IN /\ env.failAt = "none" => (o.raised = NoExc /\ o.ok)
             /\ env.failAt # "none" =>
                  /\ o.raised.type = "RuntimeError"
                  /\ o.raised.prefix = "font subsetting failed: "
                  /\ o.raised.cause = env.cause
                  /\ fs'[OUTPUT_FONT] =
                        (IF env.failAt = "save" /\ env.partial
                         THEN TruncatedFile ELSE fs[OUTPUT_FONT])
             /\ o.raised.type \in {"none", "RuntimeError"}]_vars

\* save() fails after writing part of the output file.
C7_Witness ==
    /\ last.op = "subset_font"
    /\ last.env.failAt = "save"
    /\ last.env.partial
    /\ last.out.raised.type = "RuntimeError"
    /\ last.out.raised.cause = "No space left on device"
    /\ fs[OUTPUT_FONT] = TruncatedFile

ReductionPrinted ==
    \E i \in 1..Len(stdout) :
        stdout[i].text = "  size reduced by (subset, original): "

DivisionByZero ==
    \E i \in 1..Len(stdout) : stdout[i].exc.type = "ZeroDivisionError"

\* C8: the driver computes and prints the size reduction only when the
\* original font's file size is greater than 0; when it is 0 (as in the
\* sentinel of get_font_info) the line is not printed, nothing divides by
\* zero, and the run completes with status 0.
C8_ReductionGuard ==
    /\ ~DivisionByZero
    /\ ReductionPrinted => original_info.file_size > 0
    /\ (pc = "done" /\ subset_info # NoInfo) =>
          /\ ReductionPrinted <=> original_info.file_size > 0
          /\ original_info.file_size = 0 =>
                (how = "completed" /\ exitStatus = 0)

\* The original font has no name table, so its info is the sentinel; the
\* subset is written and reported without the reduction line.
C8_Witness ==
    /\ how = "completed"
    /\ original_info = SentinelInfo
    /\ subset_info.file_size > 0
    /\ ~ReductionPrinted
    /\ exitStatus = 0

\* C9: when validate_font_file, get_font_info or subset_font returns, every
\* font handle the call opened has been closed; for get_font_info this holds
\* on its failure paths too.
C9_HandlesClosed ==
    /\ last.op = "get_font_info" => last.out.opened = last.out.closed
    /\ (last.op \in {"validate_font_file", "subset_font"}
        /\ last.out.raised = NoExc) => last.out.opened = last.out.closed

\* The except clause of line 223 ran: its message is the last line printed.
CaughtAtLine223 == stdout # <<>> /\ Last(stdout) = InterruptLine

\* C10 as claimed: a keyboard interrupt is caught by the handler of line 223
\* only while the program waits at the prompt; once main() is running it is
\* not caught by that handler.
C10_CaughtOnlyAtPrompt ==
    pc = "done" => (CaughtAtLine223 <=> how = "interrupt_at_prompt")

\* C10 amended: a keyboard interrupt is caught by the handler of line 223
\* while the program waits at the prompt and also while main() is running,
\* main() being called inside the same try block; in both cases the
\* cancellation message is printed and the process ends with status 0.  Only
\* an interrupt before the prompt is not caught.  main()'s own handler never
\* catches an interrupt.
C10_CaughtAtPromptAndInMain ==
    pc = "done" =>
        /\ CaughtAtLine223 <=> how \in {"interrupt_at_prompt", "interrupt_in_main"}
        /\ CaughtAtLine223 => exitStatus = 0
        /\ how = "uncaught_interrupt" => (~response.given /\ calls = <<>>)
        /\ how = "main_exception" => Last(stdout).exc.type # "KeyboardInterrupt"

\* Interrupted after the original font's info was printed, before subsetting.
C10_Witness ==
    /\ how = "interrupt_in_main"
    /\ calls = <<"os.path.exists", "prepare_text", "get_font_info">>
    /\ CaughtAtLine223
    /\ exitStatus = 0

====
